---- MODULE Spec2Model ----
(***************************************************************************)
(* A model of lib/mcp-shim.js: the stdio-to-HTTP forwarding shim.          *)
(*                                                                         *)
(* Strings whose characters matter (paths, tool names) are sequences of    *)
(* one-character strings.  JSON values are records with a type tag `t`.    *)
(* Time is Date.now() in milliseconds.  The event loop is modelled as      *)
(* Node runs it: the synchronous part of a 'line' handler is one step,     *)
(* promise continuations run in FIFO order from the microtask queue, and   *)
(* timers and socket events run only when the microtask queue is empty.    *)
(***************************************************************************)
EXTENDS Integers, Sequences, FiniteSets, TLC

VARIABLES
  CONFIG,     \* the configuration record (lines 30-56, 607-610)
  env,        \* what the outside world may do: input lines, proxy replies
  now,        \* Date.now()
  nread,      \* number of lines readline has emitted so far
  h,          \* h[i]: the 'line' handler invocation of the i-th line
  microq,     \* promise continuations waiting to run, oldest first
  chunk,      \* TRUE while readline is still emitting lines of one chunk
  entries,    \* cache.entries
  requests,   \* rateLimit.requests
  out,        \* lines written to stdout, oldest first
  sent,       \* HTTP request bodies handed to fetch
  exited,     \* process.exit was called
  logStream,  \* logger.logStream: "null", "open" or "ended"
  exitCode    \* the status passed to process.exit, -1 while running

vars == <<CONFIG, env, now, nread, h, microq, chunk, entries, requests, out,
          sent, exited, logStream, exitCode>>

(***************************************************************************)
(* Bounds of the model.                                                    *)
(***************************************************************************)
MaxLines == 2
MaxTicks == 2

(***************************************************************************)
(* Program constants.                                                      *)
(***************************************************************************)
WindowMs == 60000
InvalidRequest == -32600
ParseError == -32700
RateLimited == -32029
TimedOut == -32000
ProxyUnreachable == -32003

\* The clock advances in steps of half a rate-limit window.
TickMs == WindowMs \div 2

(***************************************************************************)
(* Strings as character sequences.                                         *)
(***************************************************************************)
StartsWith(s, pre) ==
  /\ Len(pre) <= Len(s)
  /\ SubSeq(s, 1, Len(pre)) = pre

\* String.prototype.includes
Includes(s, op) ==
  \E k \in 0..(Len(s) - Len(op)) : SubSeq(s, k + 1, k + Len(op)) = op

Last(s) == s[Len(s)]

sep == "/"

(***************************************************************************)
(* path.normalize and path.isAbsolute (posix).                             *)
(***************************************************************************)
RECURSIVE SplitAcc(_, _, _)
SplitAcc(p, cur, acc) ==
  IF p = <<>> THEN Append(acc, cur)
  ELSE IF Head(p) = sep THEN SplitAcc(Tail(p), <<>>, Append(acc, cur))
  ELSE SplitAcc(Tail(p), Append(cur, Head(p)), acc)

\* The segments of p between separators.
Segments(p) == SplitAcc(p, <<>>, <<>>)

DotDot == <<".", ".">>

\* normalizeString: drop "" and "." segments, let ".." remove the segment
\* before it; above the root ".." is kept only for a relative path.
RECURSIVE NormalizeSegs(_, _, _)
NormalizeSegs(segs, res, allowAboveRoot) ==
  IF segs = <<>> THEN res
  ELSE LET s == Head(segs)
           rest == Tail(segs)
       IN IF s = <<>> \/ s = <<".">>
            THEN NormalizeSegs(rest, res, allowAboveRoot)
          ELSE IF s = DotDot
            THEN IF res # <<>> /\ Last(res) # DotDot
                   THEN NormalizeSegs(rest, SubSeq(res, 1, Len(res) - 1),
                                      allowAboveRoot)
                 ELSE IF allowAboveRoot
                   THEN NormalizeSegs(rest, Append(res, s), allowAboveRoot)
                 ELSE NormalizeSegs(rest, res, allowAboveRoot)
          ELSE NormalizeSegs(rest, Append(res, s), allowAboveRoot)

RECURSIVE JoinSegs(_)
JoinSegs(segs) ==
  IF segs = <<>> THEN <<>>
  ELSE IF Len(segs) = 1 THEN Head(segs)
  ELSE Head(segs) \o <<sep>> \o JoinSegs(Tail(segs))

isAbsolute(p) == Len(p) > 0 /\ p[1] = sep

normalize(p) ==
  IF Len(p) = 0 THEN <<".">>
  ELSE LET abs == isAbsolute(p)
           trailing == Last(p) = sep
           body == JoinSegs(NormalizeSegs(Segments(p), <<>>, ~abs))
       IN IF Len(body) = 0
            THEN IF abs THEN <<sep>>
                 ELSE IF trailing THEN <<".", sep>> ELSE <<".">>
          ELSE LET b2 == IF trailing THEN Append(body, sep) ELSE body
               IN IF abs THEN <<sep>> \o b2 ELSE b2

(***************************************************************************)
(* JSON values.                                                            *)
(***************************************************************************)
Str(s) == [t |-> "str", s |-> s, a |-> <<>>]
Arr(a) == [t |-> "arr", s |-> <<>>, a |-> a]
Num == [t |-> "num", s |-> <<>>, a |-> <<>>]
Undefined == [t |-> "undefined", s |-> <<>>, a |-> <<>>]
Null == [t |-> "null", s |-> <<>>, a |-> <<>>]

\* An object is the sequence of its members in insertion order.
Member(k, v) == [k |-> k, v |-> v]

HasKey(m, k) == \E j \in 1..Len(m) : m[j].k = k

\* obj[k]
Get(m, k) ==
  IF HasKey(m, k) THEN m[CHOOSE j \in 1..Len(m) : m[j].k = k].v
  ELSE Undefined

\* obj[k] = v keeps the position of an existing member.
Put(m, k, v) ==
  IF HasKey(m, k)
    THEN [j \in 1..Len(m) |-> IF m[j].k = k THEN Member(k, v) ELSE m[j]]
  ELSE Append(m, Member(k, v))

(***************************************************************************)
(* Requests, responses and messages.                                       *)
(*                                                                         *)
(* A parsed line is a record: j is "obj", "null" (the JSON value null) or  *)
(* "prim" (a number, string, boolean or array, on which every property     *)
(* read gives undefined).  bytes is                                        *)
(* Buffer.byteLength(JSON.stringify(request), 'utf8').                     *)
(***************************************************************************)
Msg(text, arg) == [text |-> text, arg |-> arg]
NoMsg == Msg("", <<>>)

NoParams == [t |-> "undefined", name |-> Undefined,
             arguments |-> [t |-> "undefined", m |-> <<>>]]
Params(name, arguments) == [t |-> "obj", name |-> name, arguments |-> arguments]
Obj(m) == [t |-> "obj", m |-> m]

Request(id, method, params, bytes) ==
  [j |-> "obj", id |-> id, method |-> method, params |-> params,
   bytes |-> bytes, securityViolation |-> FALSE, errorMessage |-> NoMsg]
JsonNull == [Request("undefined", "undefined", NoParams, 1) EXCEPT !.j = "null"]
JsonPrim == [Request("undefined", "undefined", NoParams, 1) EXCEPT !.j = "prim"]

\* A response object.  hasResult / hasError say which members are present;
\* errorTruthy says whether `error` is a truthy value (an object) rather than
\* null, 0, false or "".
Response(id, hasResult, result, hasError, code, message) ==
  [t |-> "obj", jsonrpc |-> "2.0", id |-> id,
   hasResult |-> hasResult, result |-> result,
   hasError |-> hasError, errorTruthy |-> hasError,
   code |-> code, message |-> message]

createErrorResponse(id, code, message) ==
  Response(id, FALSE, "", TRUE, code, message)

NoResponse == [Response("undefined", FALSE, "", FALSE, 0, NoMsg) EXCEPT !.t = "none"]

(***************************************************************************)
(* Path security.                                                          *)
(***************************************************************************)
\* A prefix test without the separator.
isAllowedByPrefix(normalizedPath, allowedPath) ==
  StartsWith(normalizedPath, allowedPath)

isAllowedBy(normalizedPath, allowedPath) ==
  \/ normalizedPath = allowedPath
  \/ StartsWith(normalizedPath, Append(allowedPath, sep))

\* A relative path is accepted like an absolute one.
sanitizePathRelativeOk(filePath) ==
  IF filePath.t # "str" \/ filePath.s = <<>> THEN Null
  ELSE IF /\ Len(CONFIG.allowedPaths) > 0
          /\ ~\E k \in 1..Len(CONFIG.allowedPaths) :
                isAllowedBy(normalize(filePath.s), CONFIG.allowedPaths[k])
         THEN Null
       ELSE Str(normalize(filePath.s))

sanitizePath(filePath) ==
  IF filePath.t # "str" \/ filePath.s = <<>> THEN Null
  ELSE LET normalizedPath == normalize(filePath.s)
       IN IF isAbsolute(normalizedPath)
            THEN IF /\ Len(CONFIG.allowedPaths) > 0
                    /\ ~\E k \in 1..Len(CONFIG.allowedPaths) :
                          isAllowedBy(normalizedPath, CONFIG.allowedPaths[k])
                   THEN Null
                 ELSE Str(normalizedPath)
          ELSE Null

\* The outcome of one sanitation step on the arguments object.
Checked(m) == [viol |-> FALSE, msg |-> NoMsg, m |-> m]
Blocked(m, msg) == [viol |-> TRUE, msg |-> msg, m |-> m]

checkPath(m) ==
  LET p == Get(m, "path")
  IN IF p.t = "str"
       THEN IF sanitizePath(p) = Null
              THEN Blocked(m, Msg("Access denied to path: ", p.s))
            ELSE Checked(Put(m, "path", sanitizePath(p)))
     ELSE Checked(m)

\* The entries that fail are dropped and the others are forwarded.
checkPathsLenient(m) ==
  LET ps == Get(m, "paths")
  IN IF ps.t = "arr"
       THEN LET good == SelectSeq(ps.a, LAMBDA v : sanitizePath(v) # Null)
            IN Checked(Put(m, "paths",
                           Arr([k \in 1..Len(good) |-> sanitizePath(good[k])])))
     ELSE Checked(m)

checkPaths(m) ==
  LET ps == Get(m, "paths")
  IN IF ps.t = "arr"
       THEN IF \E k \in 1..Len(ps.a) : sanitizePath(ps.a[k]) = Null
              THEN Blocked(m, Msg("Access denied to one or more requested paths", <<>>))
            ELSE Checked(Put(m, "paths",
                             Arr([k \in 1..Len(ps.a) |-> sanitizePath(ps.a[k])])))
     ELSE Checked(m)

checkSource(m) ==
  LET s == Get(m, "source")
  IN IF s.t = "str"
       THEN IF sanitizePath(s) = Null
              THEN Blocked(Put(m, "source", Null),
                           Msg("Access denied to source path", <<>>))
            ELSE Checked(Put(m, "source", sanitizePath(s)))
     ELSE Checked(m)

checkDestination(m) ==
  LET d == Get(m, "destination")
  IN IF d.t = "str"
       THEN IF sanitizePath(d) = Null
              THEN Blocked(Put(m, "destination", Null),
                           Msg("Access denied to destination path", <<>>))
            ELSE Checked(Put(m, "destination", sanitizePath(d)))
     ELSE Checked(m)

\* path, then paths, then source, then destination; the first rejection
\* returns.
checkArguments(m) ==
  LET r1 == checkPath(m)
      r2 == IF r1.viol THEN r1 ELSE checkPaths(r1.m)
      r3 == IF r2.viol THEN r2 ELSE checkSource(r2.m)
  IN IF r3.viol THEN r3 ELSE checkDestination(r3.m)

\* typeof x === 'object'
TypeofObject(x) == x.t \in {"obj", "null"}

processRequest(request) ==
  IF CONFIG.serverName # "filesystem" THEN request
  ELSE IF request.j # "obj" THEN request
  ELSE IF request.method = "tools/call" /\ TypeofObject(request.params.arguments)
    THEN LET r == checkArguments(request.params.arguments.m)
         IN [request EXCEPT !.params.arguments.m = r.m,
                            !.securityViolation = r.viol,
                            !.errorMessage = r.msg]
  ELSE request

(***************************************************************************)
(* Cache.                                                                  *)
(***************************************************************************)
write_file == <<"w","r","i","t","e","_","f","i","l","e">>
edit_file == <<"e","d","i","t","_","f","i","l","e">>
create_directory == <<"c","r","e","a","t","e","_","d","i","r","e","c","t","o","r","y">>
move_file == <<"m","o","v","e","_","f","i","l","e">>
delete == <<"d","e","l","e","t","e">>
create_entities == <<"c","r","e","a","t","e","_","e","n","t","i","t","i","e","s">>
delete_entities == delete \o <<"_","e","n","t","i","t","i","e","s">>
create_relations == <<"c","r","e","a","t","e","_","r","e","l","a","t","i","o","n","s">>
delete_relations == delete \o <<"_","r","e","l","a","t","i","o","n","s">>
add_observations == <<"a","d","d","_","o","b","s","e","r","v","a","t","i","o","n","s">>
delete_observations == delete \o <<"_","o","b","s","e","r","v","a","t","i","o","n","s">>

writeOperations ==
  {write_file, edit_file, create_directory, move_file, delete,
   create_entities, delete_entities, create_relations, delete_relations,
   add_observations, delete_observations}

\* Every request is taken to be cacheable.
isUncacheableNever(request) == FALSE

isUncacheable(request) ==
  IF request.method = "tools/call" /\ request.params.name.t = "str"
    THEN \E op \in writeOperations : Includes(request.params.name.s, op)
  ELSE FALSE

\* JSON.stringify of a value, as the sequence of its tokens: members in
\* insertion order, undefined members left out.
RECURSIVE StringifyAll(_)
StringifyValue(v) ==
  CASE v.t = "str" -> <<"\"">> \o v.s \o <<"\"">>
    [] v.t = "arr" -> <<"[">> \o StringifyAll(v.a) \o <<"]">>
    [] v.t = "num" -> <<"0">>
    [] OTHER -> <<"null">>

StringifyAll(a) ==
  IF a = <<>> THEN <<>>
  ELSE StringifyValue(Head(a)) \o <<",">> \o StringifyAll(Tail(a))

RECURSIVE StringifyMembers(_)
StringifyMembers(m) ==
  IF m = <<>> THEN <<>>
  ELSE LET x == Head(m)
       IN (IF x.v.t = "undefined" THEN <<>>
           ELSE <<x.k, ":">> \o StringifyValue(x.v) \o <<",">>)
          \o StringifyMembers(Tail(m))

StringifyParams(params) ==
  IF params.t = "undefined" THEN <<"undefined">>
  ELSE <<"{">>
       \o (IF params.name.t = "undefined" THEN <<>>
           ELSE <<"name", ":">> \o StringifyValue(params.name) \o <<",">>)
       \o (CASE params.arguments.t = "undefined" -> <<>>
             [] params.arguments.t = "obj" ->
                  <<"arguments", ":", "{">>
                  \o StringifyMembers(params.arguments.m) \o <<"}">>
             [] OTHER -> <<"arguments", ":", "null">>)
       \o <<"}">>

Key(method, params) == [some |-> TRUE, method |-> method, params |-> params]
NoKey == [some |-> FALSE, method |-> "", params |-> <<>>]

createKey(request) ==
  IF isUncacheable(request) THEN NoKey
  ELSE Key(request.method, StringifyParams(request.params))

\* Every lookup misses.
cacheHitNever(key) == FALSE

\* An expired entry is left in the map.
cacheAfterGetKeeps(key) == entries

\* A hit extends the life of the entry.
cacheAfterGetRefreshes(key) ==
  IF ~CONFIG.responseCache \/ key \notin DOMAIN entries THEN entries
  ELSE IF now > entries[key].expiry
    THEN [k \in DOMAIN entries \ {key} |-> entries[k]]
  ELSE [entries EXCEPT ![key].expiry = now + CONFIG.cacheTTLMs]

\* cache.get: whether it returns an entry's value, and the map it leaves.
cacheHit(key) ==
  /\ CONFIG.responseCache
  /\ key \in DOMAIN entries
  /\ ~(now > entries[key].expiry)

cacheAfterGet(key) ==
  IF CONFIG.responseCache /\ key \in DOMAIN entries /\ now > entries[key].expiry
    THEN [k \in DOMAIN entries \ {key} |-> entries[k]]
  ELSE entries

\* Every reply to a request with a key is stored.
shouldCacheAlways(responseData, cacheKey) == cacheKey.some

\* if (!responseData.error && cacheKey)
shouldCache(responseData, cacheKey) == ~responseData.errorTruthy /\ cacheKey.some

\* The first response stored under a key stays.
cacheSetKeepsFirst(map, key, value) ==
  IF ~CONFIG.responseCache \/ key \in DOMAIN map THEN map
  ELSE (key :> [value |-> value, expiry |-> now + CONFIG.cacheTTLMs]) @@ map

\* cache.set
cacheSet(map, key, value) ==
  IF ~CONFIG.responseCache THEN map
  ELSE (key :> [value |-> value, expiry |-> now + CONFIG.cacheTTLMs]) @@ map

(***************************************************************************)
(* Rate limiting.                                                          *)
(***************************************************************************)
\* this.requests after the filter of isLimitExceeded
recentRequests == SelectSeq(requests, LAMBDA time : now - time < WindowMs)

\* The limit is never found exceeded.
isLimitExceededNever == FALSE

\* The comparison is strict.
isLimitExceededStrict == Len(recentRequests) > CONFIG.rateLimitPerMinute

isLimitExceeded == Len(recentRequests) >= CONFIG.rateLimitPerMinute

\* No timestamp is recorded.
addRequestSkipped == recentRequests

\* rateLimit.addRequest, called after isLimitExceeded has filtered
addRequest == Append(recentRequests, now)

\* Every attempt records a timestamp.
requestsOnRetryCounted == Append(requests, now)

\* this.requests when the retry loop starts its next iteration: the loop
\* body calls neither isLimitExceeded nor addRequest
requestsOnRetry == requests

(***************************************************************************)
(* Configuration and environment.                                          *)
(***************************************************************************)
maxRequestSize == 5
timeout == TickMs

DirAB == <<"/", "a", "/", "b">>

\* CONFIG after startup: the allowed paths have been normalized.
Config(serverName, allowedPaths, limit, ttl, retries) ==
  [serverName |-> serverName,
   allowedPaths |-> [k \in 1..Len(allowedPaths) |-> normalize(allowedPaths[k])],
   maxRequestSize |-> maxRequestSize,
   rateLimitPerMinute |-> limit,
   responseCache |-> TRUE,
   cacheTTLMs |-> ttl,
   timeout |-> timeout,
   maxRetries |-> retries]

\* An input line: its length, whether JSON.parse accepts it, and the value
\* it parses to.
Line(len, request) == [len |-> len, json |-> TRUE, v |-> request]
Garbage == [len |-> 1, json |-> FALSE, v |-> JsonNull]
Oversize == [len |-> maxRequestSize + 1, json |-> TRUE, v |-> JsonPrim]
OversizeGarbage == [len |-> maxRequestSize + 1, json |-> FALSE, v |-> JsonNull]

read_file == <<"r","e","a","d","_","f","i","l","e">>

ToolCall(id, name, m) ==
  Line(2, Request(id, "tools/call", Params(Str(name), Obj(m)), 2))

PathABC == DirAB \o <<"/", "c">>
PathABdotC == DirAB \o <<"/", ".", "/", "c">>
PathABc == DirAB \o <<"c">>
PathEscape == DirAB \o <<"/", ".", ".", "/", "c">>
PathRelative == <<"a", "/", "b">>

ReadDotC == ToolCall("1", read_file, <<Member("path", Str(PathABdotC))>>)
ReadC == ToolCall("2", read_file, <<Member("path", Str(PathABC))>>)
ReadOutside == ToolCall("3", read_file, <<Member("path", Str(PathABc))>>)
ReadEscape == ToolCall("3", read_file, <<Member("path", Str(PathEscape))>>)
ReadRelative == ToolCall("3", read_file, <<Member("path", Str(PathRelative))>>)
PathABSlash == DirAB \o <<"/">>
PathBack == PathABc \o <<"/", ".", ".", "/", "b", "/", "c">>
ReadDir == ToolCall("11", read_file, <<Member("path", Str(DirAB))>>)
ReadDirSlash == ToolCall("12", read_file, <<Member("path", Str(PathABSlash))>>)
ReadBack == ToolCall("13", read_file, <<Member("path", Str(PathBack))>>)
ReadEmpty == ToolCall("14", read_file, <<Member("path", Str(<<>>))>>)
WriteC == ToolCall("4", write_file, <<Member("path", Str(PathABC))>>)
ReadMany == ToolCall("7", read_file,
                     <<Member("paths", Arr(<<Str(PathABdotC), Str(DirAB)>>))>>)
ReadManyOutside == ToolCall("8", read_file,
                            <<Member("paths", Arr(<<Str(PathABC), Str(PathABc)>>))>>)
Move == ToolCall("9", move_file, <<Member("source", Str(PathABdotC)),
                                   Member("destination", Str(DirAB))>>)
MoveOutside == ToolCall("10", move_file, <<Member("source", Str(PathABC)),
                                           Member("destination", Str(PathEscape))>>)
ReadManyNumber == ToolCall("15", read_file,
                           <<Member("paths", Arr(<<Str(PathABC), Num>>))>>)
MoveFromOutside == ToolCall("16", move_file, <<Member("source", Str(PathABc)),
                                               Member("destination", Str(PathABC))>>)
\* {"path":"/a/b/c","head":0} and {"head":0,"path":"/a/b/c"}
ReadPathFirst == ToolCall("17", read_file, <<Member("path", Str(PathABC)),
                                             Member("head", Num)>>)
ReadPathLast == ToolCall("18", read_file, <<Member("head", Num),
                                            Member("path", Str(PathABC))>>)
Initialize == Line(2, Request("5", "initialize", NoParams, 2))
\* Short as a line, too large once measured in UTF-8 bytes.
WideChars == Line(maxRequestSize, Request("6", "initialize", NoParams, maxRequestSize + 1))

\* The replies of the proxy: a transport error, a status, and for a 2xx
\* status the body.
Result(id, result) == Response(id, TRUE, result, FALSE, 0, NoMsg)
ErrorBody(id) == createErrorResponse(id, -1, Msg("tool failed", <<>>))
\* {"jsonrpc":"2.0","id":..,"result":..,"error":null}
ErrorNullBody(id) == [Response(id, TRUE, "r1", TRUE, 0, NoMsg) EXCEPT !.errorTruthy = FALSE]
\* {}
BareBody == [Response("undefined", FALSE, "", FALSE, 0, NoMsg) EXCEPT !.jsonrpc = "undefined"]
Unparseable == [NoResponse EXCEPT !.t = "unparseable"]
NullBody == [NoResponse EXCEPT !.t = "null"]

\* The body of a 2xx reply to a request, by kind.
Body(kind, request) ==
  CASE kind = "echo" -> Result(request.id, "r1")
    [] kind = "echo2" -> Result(request.id, "r2")
    [] kind = "error" -> ErrorBody(request.id)
    [] kind = "otherid" -> Result("other", "r1")
    [] kind = "errornull" -> ErrorNullBody(request.id)
    [] kind = "bare" -> BareBody
    [] kind = "unparseable" -> Unparseable
    [] OTHER -> NullBody

\* The input lines, by name.
LineNamed(name) ==
  CASE name = "Garbage" -> Garbage
    [] name = "Oversize" -> Oversize
    [] name = "OversizeGarbage" -> OversizeGarbage
    [] name = "Null" -> Line(1, JsonNull)
    [] name = "Prim" -> Line(1, JsonPrim)
    [] name = "ReadDotC" -> ReadDotC
    [] name = "ReadC" -> ReadC
    [] name = "ReadOutside" -> ReadOutside
    [] name = "ReadEscape" -> ReadEscape
    [] name = "ReadRelative" -> ReadRelative
    [] name = "ReadDir" -> ReadDir
    [] name = "ReadDirSlash" -> ReadDirSlash
    [] name = "ReadBack" -> ReadBack
    [] name = "ReadEmpty" -> ReadEmpty
    [] name = "WriteC" -> WriteC
    [] name = "ReadMany" -> ReadMany
    [] name = "ReadManyOutside" -> ReadManyOutside
    [] name = "Move" -> Move
    [] name = "MoveOutside" -> MoveOutside
    [] name = "ReadPathFirst" -> ReadPathFirst
    [] name = "ReadPathLast" -> ReadPathLast
    [] name = "ReadManyNumber" -> ReadManyNumber
    [] name = "MoveFromOutside" -> MoveFromOutside
    [] name = "Initialize" -> Initialize
    [] OTHER -> WideChars

\* The environment: how many lines arrive and which, and how the proxy may
\* answer.
Env(n, lines, outcomes, bodies) ==
  [n |-> n, lines |-> lines, outcomes |-> outcomes, bodies |-> bodies]

\* An environment whose lines arrive in a given order.
EnvScript(script, outcomes, bodies) ==
  [n |-> Len(script), lines |-> {script[k] : k \in 1..Len(script)},
   script |-> script, outcomes |-> outcomes, bodies |-> bodies]

\* The lines that may arrive as the i-th line of standard input.
Arriving(i) ==
  IF "script" \in DOMAIN env THEN {env.script[i]} ELSE env.lines

(***************************************************************************)
(* The handler of one line.  The fields from `served` on record what       *)
(* happened and are read by no action.                                     *)
(***************************************************************************)
Idle ==
  [pc |-> "unread", line |-> Garbage, request |-> JsonNull, cacheKey |-> NoKey,
   attempt |-> 0, start |-> 0, response |-> NoResponse,
   served |-> "", readAt |-> -1, passedAt |-> -1, attempts |-> 0,
   backoffs |-> 0, failures |-> 0, aborted |-> FALSE]

Handlers == 1..(MaxLines + 1)

Written(i, response) == [line |-> i, response |-> response]

\* A return of forwardToProxy that never resumes the handler.
SettleLost(i, hi, response, served) ==
  /\ h' = [h EXCEPT ![i] = [hi EXCEPT !.pc = "resolved", !.response = response,
                                     !.served = served]]
  /\ UNCHANGED microq

\* forwardToProxy returns a response: the continuation of the handler's
\* await is queued.
Settle(i, hi, response, served) ==
  /\ h' = [h EXCEPT ![i] = [hi EXCEPT !.pc = "resolved", !.response = response,
                                     !.served = served, !.attempt = 0,
                                     !.start = 0, !.cacheKey = NoKey]]
  /\ microq' = Append(microq, i)

\* fetch(proxyUrl, {body: JSON.stringify(request), signal}) with a new timer
Fetch(i, hi) ==
  /\ h' = [h EXCEPT ![i] = [hi EXCEPT !.pc = "fetch", !.start = now,
                                     !.attempts = hi.attempts + 1]]
  /\ sent' = sent \cup {[line |-> i, body |-> hi.request]}

Unreachable(request) ==
  createErrorResponse(request.id, ProxyUnreachable,
                      Msg("Failed to communicate with MCP proxy: ", <<>>))

\* A timeout handled like any other failure.
isAbortErrorNever(name) == FALSE

isAbortError(name) == name = "AbortError"

\* attempt > CONFIG.maxRetries
isLastAttemptStrict(attempt) == attempt > CONFIG.maxRetries

\* attempt >= CONFIG.maxRetries: no retry after the last attempt
isLastAttempt(attempt) == attempt >= CONFIG.maxRetries

\* attempt <= CONFIG.maxRetries: the condition of the retry loop
loopContinues(attempt) == attempt <= CONFIG.maxRetries

\* A failed attempt is never retried.
CatchNoRetry(i, name) ==
  Settle(i, [h[i] EXCEPT !.failures = h[i].failures + 1,
                         !.aborted = h[i].aborted \/ name = "AbortError"],
         Unreachable(h[i].request), "unreachable")

\* The catch block of the retry loop.
Catch(i, name) ==
  LET hi == [h[i] EXCEPT !.failures = h[i].failures + 1,
                         !.aborted = h[i].aborted \/ name = "AbortError"]
  IN IF isAbortError(name)
       THEN Settle(i, hi, createErrorResponse(hi.request.id, TimedOut,
                                              Msg("Request timed out", <<>>)),
                   "timeout")
     ELSE IF isLastAttempt(hi.attempt)
       THEN Settle(i, hi, Unreachable(hi.request), "unreachable")
     ELSE /\ h' = [h EXCEPT ![i] = [hi EXCEPT !.pc = "backoff",
                                             !.backoffs = hi.backoffs + 1]]
          /\ UNCHANGED microq

\* The marker is ignored.
securityBlockedNever(request) == FALSE

\* if (request.__securityViolation)
securityBlocked(request) == request.securityViolation

\* forwardToProxy(request) up to its first await or its return.
forwardToProxy(i, hi) ==
  LET request == hi.request
  IN IF request.j = "null"
       \* request.__securityViolation throws a TypeError: the promise rejects
       THEN /\ h' = [h EXCEPT ![i] = [hi EXCEPT !.pc = "rejected"]]
            /\ microq' = Append(microq, i)
            /\ UNCHANGED <<entries, requests, sent>>
     ELSE IF securityBlocked(request)
       THEN /\ Settle(i, hi, createErrorResponse(request.id, InvalidRequest,
                                                 request.errorMessage), "security")
            /\ UNCHANGED <<entries, requests, sent>>
     ELSE IF request.bytes > CONFIG.maxRequestSize
       THEN /\ Settle(i, hi, createErrorResponse(request.id, InvalidRequest,
                               Msg("Request too large", <<>>)), "size")
            /\ UNCHANGED <<entries, requests, sent>>
     ELSE IF isLimitExceeded
       THEN /\ requests' = recentRequests
            /\ Settle(i, hi, createErrorResponse(request.id, RateLimited,
                               Msg("Rate limit exceeded", <<>>)), "ratelimit")
            /\ UNCHANGED <<entries, sent>>
     ELSE LET cacheKey == createKey(request)
              hk == [hi EXCEPT !.cacheKey = cacheKey, !.passedAt = now]
          IN /\ requests' = addRequest
             /\ IF cacheKey.some /\ cacheHit(cacheKey)
                  THEN /\ Settle(i, hk, [entries[cacheKey].value
                                           EXCEPT !.id = request.id], "cache")
                       /\ entries' = cacheAfterGet(cacheKey)
                       /\ UNCHANGED sent
                ELSE /\ entries' = IF cacheKey.some THEN cacheAfterGet(cacheKey)
                                   ELSE entries
                     /\ IF loopContinues(0)
                          THEN Fetch(i, hk) /\ UNCHANGED microq
                        ELSE Settle(i, hk, Unreachable(request), "unreachable")
                             /\ UNCHANGED sent

\* A line that is no JSON ends the process without a response.
ReadLineFatal ==
  /\ ~exited
  /\ nread < env.n
  /\ microq = <<>> \/ chunk
  /\ \E name \in Arriving(nread + 1) :
       LET line == LineNamed(name)
           i == nread + 1
           hi == [Idle EXCEPT !.line = line, !.readAt = now]
       IN /\ nread' = i
          /\ chunk' = TRUE
          /\ IF line.len > CONFIG.maxRequestSize \/ ~line.json
               THEN /\ h' = [h EXCEPT ![i] = [hi EXCEPT !.pc = "done",
                                                       !.served = "parse"]]
                    /\ exited' = ~line.json
                    /\ exitCode' = IF line.json THEN exitCode ELSE 1
                    /\ UNCHANGED <<out, microq, entries, requests, sent>>
             ELSE /\ forwardToProxy(i, [hi EXCEPT !.request = processRequest(line.v)])
                  /\ UNCHANGED <<out, exited, exitCode>>
  /\ UNCHANGED <<CONFIG, env, now, logStream>>

\* No line is too long.
isOversizeNever(line) == FALSE

\* if (line.length > CONFIG.maxRequestSize)
isOversize(line) == line.len > CONFIG.maxRequestSize

\* rl.on('line'): the handler runs up to its first await.
ReadLine ==
  /\ ~exited
  /\ nread < env.n
  /\ microq = <<>> \/ chunk
  /\ \E name \in Arriving(nread + 1) :
       LET line == LineNamed(name)
           i == nread + 1
           hi == [Idle EXCEPT !.line = line, !.readAt = now]
       IN /\ nread' = i
          /\ chunk' = TRUE
          /\ IF isOversize(line)
               THEN /\ out' = Append(out, Written(i,
                         createErrorResponse("null", InvalidRequest,
                                             Msg("Request too large", <<>>))))
                    /\ h' = [h EXCEPT ![i] = [hi EXCEPT !.pc = "done",
                                                       !.served = "oversize"]]
                    /\ UNCHANGED <<microq, entries, requests, sent>>
             ELSE IF ~line.json
               THEN /\ out' = Append(out, Written(i,
                         createErrorResponse("null", ParseError,
                                             Msg("Parse error: ", <<"SyntaxError">>))))
                    /\ h' = [h EXCEPT ![i] = [hi EXCEPT !.pc = "done",
                                                       !.served = "parse"]]
                    /\ UNCHANGED <<microq, entries, requests, sent>>
             ELSE /\ forwardToProxy(i, [hi EXCEPT !.request = processRequest(line.v)])
                  /\ UNCHANGED out
  /\ UNCHANGED <<CONFIG, env, now, exited, logStream, exitCode>>

\* Continuations run newest first.
NewestContinuation == microq[Len(microq)]

\* The handler whose continuation runs next.
NextContinuation == Head(microq)

\* The continuation of `await forwardToProxy(secureRequest)`: write the
\* response, or the parse error of the catch block when the promise rejected.
Resume ==
  /\ ~exited
  /\ microq # <<>>
  /\ LET i == NextContinuation
     IN /\ out' = Append(out, Written(i,
               IF h[i].pc = "rejected"
                 THEN createErrorResponse("null", ParseError,
                                          Msg("Parse error: ", <<"TypeError">>))
               ELSE h[i].response))
        /\ h' = [h EXCEPT ![i].pc = "done",
                          ![i].served = IF h[i].pc = "rejected" THEN "threw"
                                        ELSE h[i].served]
        /\ microq' = SelectSeq(microq, LAMBDA j : j # i)
  /\ chunk' = FALSE
  /\ UNCHANGED <<CONFIG, env, now, nread, entries, requests, sent, exited, logStream, exitCode>>

\* The pending fetch settles: it rejects, the timer aborts it, or the
\* response headers arrive (and the timer is cleared).
FetchSettles(i) ==
  /\ ~exited
  /\ microq = <<>>
  /\ h[i].pc = "fetch"
  /\ \E o \in env.outcomes :
       CASE o = "error" -> Catch(i, "FetchError")
         [] o = "timeout" ->
              /\ now - h[i].start >= CONFIG.timeout
              /\ Catch(i, "AbortError")
         [] o = "status" ->
              /\ h' = [h EXCEPT ![i].pc = "text"]
              /\ UNCHANGED microq
         [] OTHER ->
              /\ h' = [h EXCEPT ![i].pc = "json"]
              /\ UNCHANGED microq
  /\ chunk' = FALSE
  /\ UNCHANGED <<CONFIG, env, now, nread, entries, requests, out, sent, exited, logStream, exitCode>>

\* The body has been read: response.text() of a non-2xx reply, which is
\* thrown as an error, or response.json() of a 2xx reply.
BodyRead(i) ==
  /\ ~exited
  /\ microq = <<>>
  /\ h[i].pc \in {"text", "json"}
  /\ IF h[i].pc = "text"
       THEN Catch(i, "Error") /\ UNCHANGED entries
     ELSE \E kind \in env.bodies :
       LET responseData == Body(kind, h[i].request)
       IN CASE responseData.t = "unparseable" ->
                 Catch(i, "FetchError") /\ UNCHANGED entries
            [] responseData.t = "null" ->
                 \* responseData.id throws a TypeError inside the try block
                 Catch(i, "TypeError") /\ UNCHANGED entries
            [] OTHER ->
                 /\ entries' = IF shouldCache(responseData, h[i].cacheKey)
                                 THEN cacheSet(entries, h[i].cacheKey, responseData)
                               ELSE entries
                 /\ Settle(i, h[i], responseData, "proxy")
  /\ chunk' = FALSE
  /\ UNCHANGED <<CONFIG, env, now, nread, requests, out, sent, exited, logStream, exitCode>>

\* The backoff delay is over: attempt++ and the loop condition.
BackoffElapsed(i) ==
  /\ ~exited
  /\ microq = <<>>
  /\ h[i].pc = "backoff"
  /\ LET hi == [h[i] EXCEPT !.attempt = h[i].attempt + 1]
     IN IF loopContinues(hi.attempt)
          THEN Fetch(i, hi) /\ UNCHANGED microq
        ELSE Settle(i, hi, Unreachable(hi.request), "unreachable")
             /\ UNCHANGED sent
  /\ requests' = requestsOnRetry
  /\ chunk' = FALSE
  /\ UNCHANGED <<CONFIG, env, now, nread, entries, out, exited, logStream, exitCode>>

\* Time passes.  A timer that is due fires before time passes further.
Tick ==
  /\ ~exited
  /\ microq = <<>>
  /\ now < MaxTicks * TickMs
  /\ \A i \in Handlers : h[i].pc = "fetch" => now - h[i].start < CONFIG.timeout
  /\ now' = now + TickMs
  /\ chunk' = FALSE
  /\ UNCHANGED <<CONFIG, env, nread, h, microq, entries, requests, out, sent, exited, logStream, exitCode>>

\* The process stays up until every request in flight has been answered.
handleShutdownDrains ==
  /\ ~exited
  /\ microq = <<>>
  /\ logStream' = IF logStream = "open" THEN "ended" ELSE logStream
  /\ exitCode' = 0
  /\ exited' = \A i \in Handlers : h[i].pc \in {"unread", "done"}
  /\ chunk' = FALSE
  /\ UNCHANGED <<CONFIG, env, now, nread, h, microq, entries, requests, out, sent>>

\* SIGTERM or SIGINT: logger.close(), rl.close(), process.exit(0).  A signal
\* is dispatched by the event loop, after the pending continuations.
handleShutdown ==
  /\ ~exited
  /\ microq = <<>>
  /\ logStream' = IF logStream = "open" THEN "ended" ELSE logStream
  /\ exitCode' = 0
  /\ exited' = TRUE
  /\ chunk' = FALSE
  /\ UNCHANGED <<CONFIG, env, now, nread, h, microq, entries, requests, out, sent>>

(***************************************************************************)
(* Specifications.                                                         *)
(***************************************************************************)
InitWith(configs, environment) ==
  /\ CONFIG \in configs
  /\ env = environment
  /\ now = 0
  /\ nread = 0
  /\ h = [i \in Handlers |-> Idle]
  /\ microq = <<>>
  /\ chunk = FALSE
  /\ entries = <<>>
  /\ requests = <<>>
  /\ out = <<>>
  /\ sent = {}
  /\ exited = FALSE
  \* MCP_LOG_FILE is not set: nothing is logged to a file
  /\ logStream = "null"
  /\ exitCode = -1

Next ==
  \/ ReadLine
  \/ Resume
  \/ \E i \in Handlers : FetchSettles(i)
  \/ \E i \in Handlers : BodyRead(i)
  \/ \E i \in Handlers : BackoffElapsed(i)
  \/ Tick

\* The filesystem server behind an allow-list; the proxy may fail, time out,
\* answer with a status, echo the id, answer under another id, or send {} or
\* null.
Init ==
  InitWith({Config("filesystem", <<DirAB>>, 2, TickMs, 1)},
           Env(MaxLines, {"Garbage", "Null", "ReadDotC", "ReadC"},
               {"error", "timeout", "status", "ok"},
               {"echo", "otherid", "bare", "null"}))

Spec == Init /\ [][Next]_vars

\* The same steps, and a termination signal at any moment.
NextSignal == Next \/ handleShutdown

\* Every pending fetch settles, every body is read, every backoff ends and
\* every queued continuation runs: the event loop keeps going and each HTTP
\* attempt settles or is aborted.
Fairness ==
  /\ WF_vars(Resume)
  /\ \A i \in Handlers :
       /\ WF_vars(FetchSettles(i))
       /\ WF_vars(BodyRead(i))
       /\ WF_vars(BackoffElapsed(i))

\* One request per minute and a cache entry that outlives the window: the
\* second of two requests is rate limited, or served from the cache.
InitAllKinds ==
  InitWith({Config("filesystem", <<DirAB>>, 1, 3 * TickMs, 1)},
           Env(MaxLines, {"Garbage", "Oversize", "Null", "ReadC", "ReadOutside"},
               {"timeout", "status", "ok"}, {"echo"}))

FairSpec == InitAllKinds /\ [][Next]_vars /\ Fairness

\* The same lines and replies, without the assumption that attempts settle.
SpecFailures == InitAllKinds /\ [][Next]_vars

\* Lines answered while they are read, lines answered when their handler
\* resumes, and lines that wait for the proxy.
InitOrder ==
  InitWith({Config("filesystem", <<DirAB>>, 2, TickMs, 1)},
           Env(MaxLines, {"Garbage", "Null", "ReadOutside", "ReadC"},
               {"error", "ok"}, {"echo"}))

SpecOrder == InitOrder /\ [][Next]_vars

\* Paths inside and outside the allowed directory, for the filesystem server
\* with and without an allow-list and for another server.
InitPaths ==
  InitWith({Config("filesystem", <<DirAB>>, 1, TickMs, 1),
            Config("filesystem", <<>>, 1, TickMs, 1),
            Config("memory", <<DirAB>>, 1, TickMs, 1)},
           Env(MaxLines, {"ReadDotC", "ReadOutside", "ReadRelative", "ReadMany",
                          "MoveOutside"},
               {"error", "ok"}, {"echo"}))

SpecPaths == InitPaths /\ [][Next]_vars

\* One request and every way an attempt can end, with one or two retries.
InitRetry ==
  InitWith({Config("filesystem", <<DirAB>>, 2, TickMs, 1),
            Config("filesystem", <<DirAB>>, 2, TickMs, 2)},
           Env(MaxLines, {"Garbage", "ReadC"},
               {"error", "timeout", "status", "ok"}, {"echo", "null"}))

SpecRetry == InitRetry /\ [][Next]_vars

\* One more line than elsewhere, one or two requests per minute.
InitRate ==
  InitWith({Config("memory", <<>>, 1, TickMs, 1),
            Config("memory", <<>>, 2, TickMs, 1)},
           Env(MaxLines + 1, {"Garbage", "Initialize"}, {"error", "ok"}, {"echo"}))

SpecRate == InitRate /\ [][Next]_vars

\* Reads and writes of the same path.
InitCache ==
  InitWith({Config("filesystem", <<DirAB>>, 2, TickMs, 1)},
           Env(MaxLines, {"ReadC", "WriteC"}, {"error", "ok"}, {"echo"}))

SpecCache == InitCache /\ [][Next]_vars

\* Reads of one file under two ids, entries that live for one tick, and a
\* proxy that answers under the request's id or under another one.
InitRoundTrip ==
  InitWith({Config("filesystem", <<DirAB>>, 2, TickMs, 1)},
           Env(MaxLines, {"ReadDotC", "ReadC"}, {"error", "ok"},
               {"echo", "otherid"}))

SpecRoundTrip == InitRoundTrip /\ [][Next]_vars

\* One more read, so that an entry is stored, expires, is stored again and
\* is served.
InitExpiry ==
  InitWith({Config("filesystem", <<DirAB>>, 2, TickMs, 1)},
           Env(MaxLines + 1, {"ReadC"}, {"error", "ok"}, {"echo"}))

SpecExpiry == InitExpiry /\ [][Next]_vars

\* Requests that are rejected locally and requests that reach the proxy,
\* which fails, times out, or answers with a result, with an error object
\* or with a result beside "error": null.
InitStore ==
  InitWith({Config("filesystem", <<DirAB>>, 1, TickMs, 1)},
           Env(MaxLines, {"ReadC", "Initialize", "ReadOutside", "WideChars"},
               {"error", "timeout", "status", "ok"},
               {"echo", "error", "errornull"}))

SpecStore == InitStore /\ [][Next]_vars

\* Paths for sanitizePath: absolute and relative, normalized or not, equal
\* to the allowed directory, below it, beside it, and empty; the allow-list
\* is empty or holds one directory, with or without a trailing separator.
\* The proxy answers every request with an error status.
InitSanitize ==
  InitWith({Config("filesystem", <<DirAB>>, 1, TickMs, 1),
            Config("filesystem", <<>>, 1, TickMs, 1),
            Config("filesystem", <<PathABSlash>>, 1, TickMs, 1)},
           Env(MaxLines, {"ReadC", "ReadOutside", "ReadRelative", "ReadDir",
                          "ReadBack", "ReadEmpty"},
               {"status"}, {"echo"}))

SpecSanitize == InitSanitize /\ [][Next]_vars

\* Three reads of one file, two requests per minute, and entries that
\* outlive the window.
InitBudget ==
  InitWith({Config("filesystem", <<DirAB>>, 2, 3 * TickMs, 1)},
           Env(MaxLines + 1, {"ReadC"}, {"error", "ok"}, {"echo"}))

SpecBudget == InitBudget /\ [][Next]_vars

\* A read and a write; the proxy answers with an error status or with a
\* 2xx body that holds a result, an error object, or a result beside
\* "error": null.
InitStatus ==
  InitWith({Config("filesystem", <<DirAB>>, 1, TickMs, 1)},
           Env(MaxLines, {"ReadC", "WriteC"}, {"status", "ok"},
               {"echo", "error", "errornull"}))

SpecStatus == InitStatus /\ [][Next]_vars

\* Lines that are too long, as JSON or not, a line of the maximal length
\* whose request is too large in bytes, and a request that is forwarded.
InitOversize ==
  InitWith({Config("filesystem", <<DirAB>>, 1, TickMs, 1)},
           Env(MaxLines, {"Oversize", "OversizeGarbage", "WideChars", "ReadC"},
               {"error", "ok"}, {"echo"}))

SpecOversize == InitOversize /\ [][Next]_vars

\* Arrays of paths and pairs of source and destination, all inside the
\* allowed directory or with one entry that is outside or no string.
InitArrays ==
  InitWith({Config("filesystem", <<DirAB>>, 1, TickMs, 1)},
           Env(MaxLines, {"ReadMany", "ReadManyOutside", "ReadManyNumber", "Move",
                          "MoveOutside", "MoveFromOutside"},
               {"error", "ok"}, {"echo"}))

SpecArrays == InitArrays /\ [][Next]_vars

\* Two reads whose arguments hold the same members in a different order.
InitKeys ==
  InitWith({Config("filesystem", <<DirAB>>, 2, TickMs, 1)},
           Env(MaxLines, {"ReadPathFirst", "ReadPathLast"}, {"error", "ok"},
               {"echo"}))

SpecKeys == InitKeys /\ [][Next]_vars

\* A read, a write and then reads of one path, with entries that outlive
\* the rate-limit window.
InitFrame ==
  InitWith({Config("filesystem", <<DirAB>>, 2, 3 * TickMs, 1)},
           EnvScript([k \in 1..(MaxLines + 1) |->
                        IF k = 2 THEN "WriteC" ELSE "ReadC"],
                     {"error", "ok"}, {"echo"}))

SpecFrame == InitFrame /\ [][Next]_vars

\* Reads of one file under two ids that may be in flight together, and a
\* proxy that answers them with one result or another.
InitRace ==
  InitWith({Config("filesystem", <<DirAB>>, 2, TickMs, 1)},
           Env(MaxLines, {"ReadDotC", "ReadC"}, {"error", "ok"},
               {"echo", "echo2"}))

SpecRace == InitRace /\ [][Next]_vars

\* A shim that may log to a file and may receive a termination signal.
InitSignal ==
  /\ CONFIG = Config("filesystem", <<DirAB>>, 2, TickMs, 1)
  /\ env = Env(MaxLines, {"Garbage", "ReadC"}, {"error", "ok"}, {"echo"})
  /\ now = 0
  /\ nread = 0
  /\ h = [i \in Handlers |-> Idle]
  /\ microq = <<>>
  /\ chunk = FALSE
  /\ entries = <<>>
  /\ requests = <<>>
  /\ out = <<>>
  /\ sent = {}
  /\ exited = FALSE
  /\ logStream \in {"null", "open"}
  /\ exitCode = -1

SpecSignal == InitSignal /\ [][NextSignal]_vars

(***************************************************************************)
(* Properties.                                                             *)
(***************************************************************************)
\* The number of lines written to stdout for the i-th input line.
Outputs(i) == Cardinality({p \in 1..Len(out) : out[p].line = i})

\* C1: without a termination signal, and with every HTTP attempt settling
\* or being aborted, every line read from stdin gets exactly one line on
\* stdout: never two, none before its handler ends, and eventually one.
C1_ExactlyOneResponse ==
  /\ [](\A i \in Handlers :
          /\ Outputs(i) <= 1
          /\ Outputs(i) = 1 <=> h[i].pc = "done")
  /\ \A i \in Handlers : (h[i].pc # "unread") ~> (Outputs(i) = 1)

C1_Witness ==
  /\ \A i \in 1..env.n : h[i].pc = "done" /\ Outputs(i) = 1
  /\ \E i, j \in Handlers : h[i].served = "proxy" /\ h[j].served = "cache"

\* The i-th line was answered inside its 'line' event: it was too long or
\* no JSON.
Synchronous(i) == h[i].served \in {"oversize", "parse"}

\* The original statement of C2: responses are written in input order.
C2_InputOrder ==
  \A p, q \in 1..Len(out) : p < q => out[p].line < out[q].line

\* C2 (amended): responses are written in the order their handlers finish.
\* When the response of a later line is written before the response of an
\* earlier one, the earlier line made an HTTP attempt, or the later line was
\* answered inside its own 'line' event while the earlier handler had not
\* resumed yet.
C2_CompletionOrder ==
  \A p, q \in 1..Len(out) :
    p < q /\ out[p].line > out[q].line =>
      \/ h[out[q].line].attempts >= 1
      \/ Synchronous(out[p].line) /\ ~Synchronous(out[q].line)

C2_Witness ==
  \E p, q \in 1..Len(out) :
    /\ p < q /\ out[p].line > out[q].line
    /\ h[out[q].line].served = "proxy"
    /\ h[out[p].line].served = "security"

\* The original statement of C3: a response carries the id of its request.
C3_ResponseCarriesRequestId ==
  \A p \in 1..Len(out) :
    LET hi == h[out[p].line]
    IN hi.line.json /\ hi.line.len <= CONFIG.maxRequestSize /\ hi.request.j = "obj"
         => out[p].response.id = hi.request.id

\* The original statement of C6: forwardToProxy never throws or rejects.
C6_ForwardNeverRaises ==
  \A i \in Handlers : h[i].pc # "rejected"

\* No ".", ".." or empty segment, but for the root and a trailing separator.
IsNormalized(p) ==
  LET segs == Segments(p)
  IN \A k \in 1..Len(segs) :
       /\ segs[k] # <<".">>
       /\ segs[k] # DotDot
       /\ segs[k] = <<>> => k = 1 \/ k = Len(segs)

\* A string value that is a normalized absolute path equal to an allowed
\* prefix or below one; a value that is no string is not a path.
AllowedPath(v) ==
  v.t = "str" =>
    /\ isAbsolute(v.s)
    /\ IsNormalized(v.s)
    /\ \E k \in 1..Len(CONFIG.allowedPaths) :
         \/ v.s = CONFIG.allowedPaths[k]
         \/ StartsWith(v.s, CONFIG.allowedPaths[k] \o <<sep>>)

C5_Step ==
  \A i \in Handlers :
    /\ h[i].pc = "unread" /\ h'[i].pc # "unread" /\ h'[i].request.securityViolation
         => /\ h'[i].pc = "resolved"
            /\ h'[i].response.hasError /\ ~h'[i].response.hasResult
            /\ h'[i].response.code = InvalidRequest
            /\ h'[i].response.id = h'[i].request.id
            /\ h'[i].response.message = h'[i].request.errorMessage
            /\ h'[i].request.errorMessage # NoMsg
            /\ h'[i].attempts = 0
            /\ UNCHANGED <<entries, requests, sent>>
    /\ h[i].request.securityViolation /\ h[i].pc # h'[i].pc
         => /\ h[i].pc = "resolved" /\ h'[i].pc = "done"
            /\ out' = Append(out, Written(i, h[i].response))
            /\ h'[i].response = h[i].response
            /\ UNCHANGED <<entries, requests, sent>>

\* C5: a request the path sanitizer marked as a security violation is
\* answered with error -32600 carrying the reason, and neither the step that
\* rejects it nor the step that writes the answer calls the proxy, touches
\* the cache or records a timestamp in the rate limiter.
C5_ViolationShortCircuits == [][C5_Step]_vars

C5_Witness ==
  \E i \in Handlers :
    /\ h[i].pc = "done" /\ h[i].served = "security"
    /\ h[i].response.message = Msg("Access denied to path: ", PathABc)
    /\ Len(requests) > 0
    /\ DOMAIN entries # {}

\* C7: a request whose every attempt fails without a timeout makes exactly
\* maxRetries + 1 attempts, waits after each attempt but the last, and ends
\* with error -32003 under its own id.
C7_RetriesThenUnreachable ==
  \A i \in Handlers :
    LET hi == h[i]
    IN /\ hi.attempts <= CONFIG.maxRetries + 1
       /\ hi.pc = "backoff" => hi.backoffs = hi.attempts /\ hi.attempts <= CONFIG.maxRetries
       /\ hi.pc \in {"fetch", "json", "text"} => hi.backoffs = hi.attempts - 1
       /\ hi.served = "unreachable" => hi.failures = hi.attempts /\ ~hi.aborted
       /\ (/\ hi.pc \in {"resolved", "done"}
           /\ hi.attempts >= 1 /\ hi.failures = hi.attempts /\ ~hi.aborted)
            => /\ hi.attempts = CONFIG.maxRetries + 1
               /\ hi.backoffs = CONFIG.maxRetries
               /\ hi.response.hasError /\ ~hi.response.hasResult
               /\ hi.response.code = ProxyUnreachable
               /\ hi.response.id = hi.request.id

C7_Witness ==
  \E i \in Handlers :
    /\ h[i].pc = "done" /\ h[i].served = "unreachable"
    /\ CONFIG.maxRetries = 2 /\ h[i].attempts = 3 /\ h[i].backoffs = 2
    /\ \E p \in 1..Len(out) : out[p] = Written(i, Unreachable(h[i].request))

RateChecked(i) ==
  h[i].pc # "unread" /\ h[i].served \notin {"oversize", "parse", "threw", "security", "size"}

\* The earlier requests that passed the rate-limit step less than 60
\* seconds before the i-th line was read.
PassedBefore(i) ==
  {j \in Handlers : j < i /\ h[j].passedAt >= 0 /\ h[i].readAt - h[j].passedAt < WindowMs}

\* C9: a request that reaches the rate-limit step passes it exactly when
\* fewer than `limit` requests passed it in the 60 seconds before, and is
\* answered with error -32029 otherwise; so no 60-second window ending at a
\* request that passed holds more than `limit` requests that passed.
C9_SlidingWindow ==
  \A i \in Handlers :
    /\ RateChecked(i) =>
         /\ h[i].passedAt >= 0 <=> Cardinality(PassedBefore(i)) < CONFIG.rateLimitPerMinute
         /\ h[i].passedAt >= 0 => h[i].passedAt = h[i].readAt
         /\ h[i].served = "ratelimit" <=> h[i].passedAt < 0
         /\ h[i].served = "ratelimit" =>
              /\ h[i].response.hasError
              /\ h[i].response.code = RateLimited
              /\ h[i].response.id = h[i].request.id
    /\ h[i].passedAt >= 0 =>
         Cardinality({j \in Handlers : /\ h[j].passedAt >= 0
                                       /\ h[j].passedAt <= h[i].passedAt
                                       /\ h[i].passedAt - h[j].passedAt < WindowMs})
           <= CONFIG.rateLimitPerMinute

C9_Witness ==
  \E i, j, k \in Handlers :
    /\ i < j /\ j < k
    /\ h[i].passedAt = 0
    /\ h[j].served = "ratelimit" /\ h[j].pc = "done"
    /\ h[k].passedAt = WindowMs

\* The request calls a tool whose name holds a mutation marker.
Mutating(request) ==
  /\ request.j = "obj" /\ request.method = "tools/call"
  /\ request.params.name.t = "str"
  /\ \E op \in writeOperations :
       \E k \in 1..Len(request.params.name.s) :
         StartsWith(SubSeq(request.params.name.s, k, Len(request.params.name.s)), op)

\* C10: a tools/call of a mutating tool is never served from the cache,
\* nothing is stored under its key, and once past the security, size and
\* rate checks it has called the proxy.
C10_MutatingNeverCached ==
  \A i \in Handlers :
    h[i].pc # "unread" /\ h[i].line.json /\ Mutating(h[i].request) =>
      /\ h[i].served # "cache"
      /\ h[i].cacheKey = NoKey
      /\ Key(h[i].request.method, StringifyParams(h[i].request.params))
           \notin DOMAIN entries
      /\ h[i].passedAt >= 0 => h[i].attempts >= 1

C10_Witness ==
  \E i, j \in Handlers :
    /\ i < j
    /\ h[i].served = "proxy" /\ ~Mutating(h[i].request)
    /\ Mutating(h[j].request) /\ h[j].readAt = h[i].readAt
    /\ h[j].pc = "done" /\ h[j].served = "proxy" /\ h[j].response.hasResult
    /\ DOMAIN entries # {}

\* The cache key of a request, as createKey builds it.
KeyOf(request) == Key(request.method, StringifyParams(request.params))

\* The step reads the i-th line and takes its request past the rate-limit
\* step of forwardToProxy.
ReadAndPassed(i) ==
  h[i].pc = "unread" /\ h'[i].pc # "unread" /\ h'[i].passedAt >= 0

\* What C11 says of one step.
C11_Step ==
  \A i \in Handlers :
    /\ (/\ ReadAndPassed(i)
        /\ ~Mutating(h'[i].request)
        /\ KeyOf(h'[i].request) \in DOMAIN entries
        /\ now <= entries[KeyOf(h'[i].request)].expiry)
         => /\ h'[i].pc = "resolved" /\ h'[i].served = "cache"
            /\ h'[i].attempts = 0
            /\ h'[i].response = [entries[KeyOf(h'[i].request)].value
                                   EXCEPT !.id = h'[i].request.id]
            /\ UNCHANGED <<entries, sent>>
    /\ h[i].served = "cache" /\ h[i].pc # h'[i].pc
         => /\ out' = Append(out, Written(i, h[i].response))
            /\ UNCHANGED <<entries, sent>>

\* C11: a cacheable request that passes the rate-limit step while an
\* unexpired entry is stored under its key is answered without an HTTP
\* call, with the stored response in which only the id is replaced by the
\* request's id, and that response is the line written.
C11_CacheRoundTrip == [][C11_Step]_vars

C11_Witness ==
  \E j \in Handlers :
    /\ h[j].pc = "done" /\ h[j].served = "cache" /\ h[j].readAt > 0
    /\ KeyOf(h[j].request) \in DOMAIN entries
    /\ entries[KeyOf(h[j].request)].value.id = "other"
    /\ h[j].response.id = h[j].request.id /\ h[j].request.id = "2"
    /\ h[j].response.result = entries[KeyOf(h[j].request)].value.result
    /\ \E p \in 1..Len(out) : out[p] = Written(j, h[j].response)

\* What C12 says of one step.
C12_Step ==
  \A i \in Handlers :
    /\ (/\ ReadAndPassed(i)
        /\ ~Mutating(h'[i].request)
        /\ KeyOf(h'[i].request) \in DOMAIN entries
        /\ now > entries[KeyOf(h'[i].request)].expiry)
         => /\ KeyOf(h'[i].request) \notin DOMAIN entries'
            /\ h'[i].pc = "fetch" /\ h'[i].attempts = 1
            /\ [line |-> i, body |-> h'[i].request] \in sent'
    /\ (/\ h[i].pc = "json" /\ h'[i].served = "proxy"
        /\ ~Mutating(h[i].request)
        /\ ~h'[i].response.errorTruthy)
         => /\ KeyOf(h[i].request) \in DOMAIN entries'
            /\ entries'[KeyOf(h[i].request)] =
                 [value |-> h'[i].response, expiry |-> now + CONFIG.cacheTTLMs]
    /\ (/\ ReadAndPassed(i)
        /\ ~Mutating(h'[i].request)
        /\ KeyOf(h'[i].request) \in DOMAIN entries
        /\ ~(now > entries[KeyOf(h'[i].request)].expiry))
         => h'[i].served = "cache"

\* C12: a lookup made after the entry's time-to-live has elapsed removes
\* the entry and the request goes to the proxy; a successful reply is
\* stored under the same key with a new expiry, and lookups up to that
\* expiry are served from the cache.
C12_CacheExpiry == [][C12_Step]_vars

C12_Witness ==
  \E i, j, k \in Handlers :
    /\ i < j /\ j < k
    /\ h[i].served = "proxy" /\ h[i].readAt = 0
    /\ h[j].served = "proxy" /\ h[j].readAt = 2 * TickMs /\ h[j].attempts = 1
    /\ h[k].served = "cache" /\ h[k].pc = "done"
    /\ KeyOf(h[i].request) = KeyOf(h[j].request)
    /\ KeyOf(h[j].request) = KeyOf(h[k].request)
    /\ entries[KeyOf(h[k].request)].expiry = 3 * TickMs

\* The original statement of C13: no cache entry has an error member.
C13_NoErrorMember ==
  \A k \in DOMAIN entries : ~entries[k].value.hasError

\* C13 (amended): every cache entry is a body received from the proxy whose
\* error member is absent or falsy; no response with an error object,
\* generated locally or by the proxy, is stored.
C13_NoErrorStored ==
  \A k \in DOMAIN entries :
    /\ entries[k].value.t = "obj"
    /\ ~entries[k].value.errorTruthy
    /\ entries[k].value.hasResult
    /\ \A i \in Handlers :
         h[i].response.errorTruthy => entries[k].value # h[i].response

C13_Witness ==
  /\ \E k \in DOMAIN entries : entries[k].value.hasError
  /\ \E i \in Handlers :
       /\ h[i].pc = "done" /\ h[i].served = "proxy"
       /\ h[i].response.errorTruthy
       /\ KeyOf(h[i].request) \notin DOMAIN entries

\* The ways a line or its request can fail before or inside forwardToProxy.
FailureKinds ==
  {"oversize", "parse", "threw", "security", "size", "ratelimit", "timeout",
   "unreachable"}

\* What C14 says of the step that reads a line which is no JSON.
C14_Step ==
  \A i \in Handlers :
    h[i].pc = "unread" /\ h'[i].pc # "unread" /\ ~h'[i].line.json
      => /\ Len(out') = Len(out) + 1
         /\ out'[Len(out')].line = i
         /\ out'[Len(out')].response.hasError
         /\ ~out'[Len(out')].response.hasResult
         /\ out'[Len(out')].response.code = ParseError
         /\ out'[Len(out')].response.id = "null"
         /\ UNCHANGED <<entries, requests, sent>>
         /\ ~exited'

\* C14: no line ends the process.  A line that is no JSON is answered with
\* error -32700 under id null and leaves the cache and the rate limiter as
\* they were; every line or request that fails (oversize, rejected, rate
\* limited, timed out, proxy unreachable) is answered with an error
\* response; and the process is still running afterwards.
C14_NoLineIsFatal ==
  /\ [](~exited /\ exitCode = -1)
  /\ [][C14_Step]_vars
  /\ [](\A i \in Handlers :
          h[i].pc = "done" /\ h[i].served \in FailureKinds
            => \E p \in 1..Len(out) :
                 /\ out[p].line = i
                 /\ out[p].response.t = "obj"
                 /\ out[p].response.jsonrpc = "2.0"
                 /\ out[p].response.hasError /\ ~out[p].response.hasResult)

C14_Witness ==
  \E i, j \in Handlers :
    /\ i < j
    /\ h[i].pc = "done" /\ h[i].served = "parse"
    /\ h[j].pc = "done" /\ h[j].served \in {"proxy", "unreachable", "timeout"}
    /\ Outputs(i) = 1 /\ Outputs(j) = 1
    /\ ~exited

\* The original statement of C15: no HTTP attempt, from the call of fetch
\* until its body has been read, is pending for longer than the timeout.
C15_AttemptWithinTimeout ==
  \A i \in Handlers :
    h[i].pc \in {"fetch", "text", "json"} => now - h[i].start <= CONFIG.timeout

\* The path argument of the i-th line as it was read, and as the request
\* carries it after processRequest.
RawPath(i) == Get(h[i].line.v.params.arguments.m, "path").s
SanitizedPath(i) == Get(h[i].request.params.arguments.m, "path")

\* The normalized form n of a path is absolute, and the allow-list is empty
\* or holds a prefix that is n or that, followed by the separator, starts n.
Accepts(n) ==
  /\ isAbsolute(n)
  /\ \/ Len(CONFIG.allowedPaths) = 0
     \/ \E k \in 1..Len(CONFIG.allowedPaths) :
          \/ n = CONFIG.allowedPaths[k]
          \/ StartsWith(n, CONFIG.allowedPaths[k] \o <<sep>>)

\* C16: sanitizePath accepts a path exactly when its normalized form is
\* absolute and the allow-list is empty or covers it, and then returns the
\* normalized form; a relative path is rejected whatever the allow-list;
\* with the allow-list ["/a/b"], "/a/bc" is rejected and "/a/b" and "/a/b/c"
\* are accepted.
C16_SanitizeAccepts ==
  \A i \in Handlers :
    h[i].pc # "unread" /\ h[i].line.json /\ h[i].line.v.j = "obj" =>
      /\ LET n == normalize(RawPath(i))
         IN /\ h[i].request.securityViolation <=> ~Accepts(n)
            /\ Accepts(n) => SanitizedPath(i) = Str(n)
      /\ ~isAbsolute(RawPath(i)) => h[i].request.securityViolation
      /\ CONFIG.allowedPaths = <<DirAB>> =>
           /\ RawPath(i) = PathABc => h[i].request.securityViolation
           /\ RawPath(i) \in {DirAB, PathABC} =>
                ~h[i].request.securityViolation /\ SanitizedPath(i) = Str(RawPath(i))

C16_Witness ==
  /\ CONFIG.allowedPaths = <<DirAB>>
  /\ \E i, j \in Handlers :
       /\ h[i].pc # "unread" /\ RawPath(i) = PathABc
       /\ h[i].request.securityViolation
       /\ h[j].pc # "unread" /\ RawPath(j) = PathBack
       /\ SanitizedPath(j) = Str(PathABC)

\* The original statement of C17: every line written is a response object
\* with jsonrpc "2.0" and exactly one of result and error.
C17_WellFormedOutput ==
  \A p \in 1..Len(out) :
    /\ out[p].response.t = "obj"
    /\ out[p].response.jsonrpc = "2.0"
    /\ out[p].response.hasResult # out[p].response.hasError

\* The i-th line's request is in flight: forwardToProxy waits for the
\* proxy or for a backoff delay.
InFlight(i) == h[i].pc \in {"fetch", "text", "json", "backoff"}

\* C18: a termination signal ends the log stream and exits with status 0 in
\* the same step, whatever is in flight; from then on no line is read and
\* no response is written, so a request in flight gets no response.
C18_SignalExitsAtOnce ==
  /\ [](exitCode # -1 => exited /\ exitCode = 0 /\ logStream # "open")
  /\ [][~exited /\ exited'
          => /\ UNCHANGED <<nread, h, out, sent, entries, requests>>
             /\ logStream' = IF logStream = "open" THEN "ended" ELSE logStream]_vars
  /\ [][exitCode # -1 => UNCHANGED <<nread, h, out, sent>>]_vars

C18_Witness ==
  /\ exited /\ exitCode = 0 /\ logStream = "ended"
  /\ nread < env.n
  /\ \E i \in Handlers : InFlight(i) /\ Outputs(i) = 0

\* The timestamps the rate limiter holds that are younger than 60 seconds.
Young == SelectSeq(requests, LAMBDA time : now - time < WindowMs)

\* An unexpired entry is stored under the key of the request.
ValidEntry(request) ==
  /\ KeyOf(request) \in DOMAIN entries
  /\ now <= entries[KeyOf(request)].expiry

\* What C19 says of the step that reads the i-th line and hands its request
\* to forwardToProxy, past the security and size checks.
C19_Step ==
  \A i \in Handlers :
    h[i].pc = "unread" /\ h'[i].pc # "unread" /\ RateChecked(i)' =>
      IF Len(Young) >= CONFIG.rateLimitPerMinute
        THEN /\ h'[i].served = "ratelimit"
             /\ h'[i].response.code = RateLimited
             /\ requests' = Young
             /\ UNCHANGED <<entries, sent>>
      ELSE /\ requests' = Append(Young, now)
           /\ h'[i].served = "cache" <=> ValidEntry(h'[i].request)
           /\ h'[i].served # "cache" => h'[i].pc = "fetch"

\* C19: forwardToProxy checks the rate limit, then records, then looks up
\* the cache.  A request that finds the window full is answered with error
\* -32029 and records nothing, even when a valid cache entry exists for it;
\* every request that passes records exactly one timestamp, also when it is
\* then served from the cache.
C19_LimitRecordLookup == [][C19_Step]_vars

C19_Witness ==
  \E i, j, k \in Handlers :
    /\ i < j /\ j < k
    /\ h[i].served = "proxy"
    /\ h[j].served = "cache" /\ h[j].passedAt >= 0
    /\ h[k].served = "ratelimit" /\ h[k].pc = "done"
    /\ ValidEntry(h[k].request)
    /\ Len(requests) = 2

C20_Step ==
  \A i \in Handlers :
    /\ h[i].pc = "text" /\ h'[i].pc # "text"
         => /\ h'[i].failures = h[i].failures + 1
            /\ h'[i].attempts = h[i].attempts
            /\ IF h[i].attempt < CONFIG.maxRetries
                 THEN h'[i].pc = "backoff" /\ h'[i].backoffs = h[i].backoffs + 1
               ELSE h'[i].pc = "resolved" /\ h'[i].served = "unreachable"
            /\ UNCHANGED entries
    /\ h[i].pc = "backoff" /\ h'[i].pc # "backoff"
         => h'[i].pc = "fetch" /\ h'[i].attempts = h[i].attempts + 1
    /\ h[i].pc = "json" /\ h'[i].served = "proxy"
         => /\ h'[i].pc = "resolved"
            /\ h'[i].attempts = h[i].attempts /\ h'[i].backoffs = h[i].backoffs
            /\ h'[i].failures = h[i].failures
            /\ IF h'[i].response.errorTruthy \/ Mutating(h[i].request)
                 THEN UNCHANGED entries
               ELSE /\ DOMAIN entries' = DOMAIN entries \cup {KeyOf(h[i].request)}
                    /\ entries'[KeyOf(h[i].request)].value = h'[i].response
                    /\ \A k \in DOMAIN entries \ {KeyOf(h[i].request)} :
                         entries'[k] = entries[k]
    /\ h[i].served = "proxy" /\ h[i].pc # h'[i].pc
         => /\ h'[i].pc = "done"
            /\ out' = Append(out, Written(i, h[i].response))
            /\ UNCHANGED entries

C21_OversizeIsParseError ==
  \A p \in 1..Len(out) :
    h[out[p].line].line.len > CONFIG.maxRequestSize
      => out[p].response.code = ParseError

\* What C21 (amended) says of the step that reads a line that is too long.
C21_Step ==
  \A i \in Handlers :
    /\ h[i].pc = "unread" /\ h'[i].pc # "unread"
    /\ h'[i].line.len > CONFIG.maxRequestSize
    => /\ h'[i].pc = "done"
       /\ out' = Append(out, Written(i, createErrorResponse("null", InvalidRequest,
                                            Msg("Request too large", <<>>))))
       /\ h'[i].request = Idle.request
       /\ h'[i].attempts = 0 /\ h'[i].passedAt = -1
       /\ UNCHANGED <<entries, requests, sent, microq>>

\* C21 (amended): a line longer than the maximum is answered, in the step
\* that reads it, with an invalid-request error (-32600) under id null; it
\* is not parsed and reaches neither the path sanitizer nor forwardToProxy:
\* no timestamp is recorded, the cache is not touched, nothing is sent.
C21_OversizeRejected == [][C21_Step]_vars

C21_Witness ==
  \E i \in Handlers :
    /\ h[i].pc = "done" /\ h[i].served = "oversize"
    /\ ~h[i].line.json
    /\ \E p \in 1..Len(out) :
         out[p].line = i /\ out[p].response.code = InvalidRequest
                         /\ out[p].response.id = "null"
    /\ Len(requests) > 0 /\ DOMAIN entries # {}

\* A value passes sanitation: a non-empty string that sanitizePath accepts.
Passes(v) == v.t = "str" /\ v.s # <<>> /\ Accepts(normalize(v.s))

\* An argument of the i-th line as it was read, and as the request carries
\* it after processRequest.
RawArg(i, k) == Get(h[i].line.v.params.arguments.m, k)
SanitizedArg(i, k) == Get(h[i].request.params.arguments.m, k)

\* Some entry of the paths array of the i-th line fails sanitation.
BadPaths(i) ==
  /\ RawArg(i, "paths").t = "arr"
  /\ \E k \in 1..Len(RawArg(i, "paths").a) : ~Passes(RawArg(i, "paths").a[k])

\* The string argument k of the i-th line fails sanitation.
BadArg(i, k) == RawArg(i, k).t = "str" /\ ~Passes(RawArg(i, k))

SameCall(r1, r2) ==
  /\ r1.j = "obj" /\ r2.j = "obj"
  /\ r1.method = r2.method
  /\ r1.params.t = r2.params.t
  /\ r1.params.name = r2.params.name
  /\ r1.params.arguments.t = r2.params.arguments.t
  /\ {r1.params.arguments.m[k] : k \in 1..Len(r1.params.arguments.m)}
       = {r2.params.arguments.m[k] : k \in 1..Len(r2.params.arguments.m)}

\* The original statement of C23: requests with the same method and
\* structurally equal params get the same cache key, and the later one is
\* never sent to the proxy while the earlier one's entry is in the cache.
C23_CanonicalKey ==
  \A i, j \in Handlers :
    h[i].pc # "unread" /\ h[j].pc # "unread"
    /\ h[i].line.json /\ h[j].line.json
    /\ SameCall(h[i].request, h[j].request)
    => createKey(h[i].request) = createKey(h[j].request)

\* A step changes the rate limiter's list only while it reads a line, and
\* then to the timestamps younger than 60 seconds, with at most the current
\* time added.
C24_Step ==
  requests' # requests =>
    /\ nread' = nread + 1
    /\ requests' \in {Young, Append(Young, now)}

\* C24: the rate limiter never holds more timestamps than the configured
\* limit, however many requests overlap in flight, because the check, with
\* its purge, and the record happen in the one step that reads the line.
C24_BoundedTimestamps ==
  /\ [](Len(requests) <= CONFIG.rateLimitPerMinute)
  /\ [][C24_Step]_vars

\* Two requests are in flight together, the list is full, and a third
\* request was turned away.
C24_Witness ==
  \E i, j, k \in Handlers :
    /\ i < j /\ j < k
    /\ InFlight(i) /\ InFlight(j)
    /\ h[i].passedAt >= 0 /\ h[j].passedAt >= 0
    /\ h[k].served = "ratelimit"
    /\ Len(requests) = CONFIG.rateLimitPerMinute
    /\ CONFIG.rateLimitPerMinute = 2

\* The requests that passed the rate-limit step at the given time.
PassedAt(time) == {i \in Handlers : h[i].passedAt = time}

\* The step in which the i-th request passes the rate-limit step records
\* one timestamp, the current time; a step in which it starts a retry
\* attempt leaves the list as it is.
C25_Step ==
  \A i \in Handlers :
    /\ h[i].passedAt < 0 /\ h'[i].passedAt >= 0
         => requests' = Append(Young, now)
    /\ h[i].attempts >= 1 /\ h'[i].attempts > h[i].attempts
         => requests' = requests

\* C25: a request that passes the rate-limit step records exactly one
\* timestamp, however many HTTP attempts it makes: the list holds, for
\* every time, at most as many timestamps as requests passed at that time,
\* and a retry attempt adds none.
C25_OneTimestampPerRequest ==
  /\ [](\A p \in 1..Len(requests) :
          Cardinality({q \in 1..Len(requests) : requests[q] = requests[p]})
            <= Cardinality(PassedAt(requests[p])))
  /\ [](\A i \in Handlers :
          h[i].passedAt >= 0 /\ now - h[i].passedAt < WindowMs /\ nread = i
            => \E p \in 1..Len(requests) : requests[p] = h[i].passedAt)
  /\ [][C25_Step]_vars

\* Two requests filled the list of a limit of two, and both made a second
\* attempt within the same minute: four HTTP calls, two timestamps.
C25_Witness ==
  \E i, j \in Handlers :
    /\ i < j
    /\ h[i].attempts >= 2 /\ h[j].attempts >= 2
    /\ now < WindowMs
    /\ CONFIG.rateLimitPerMinute = 2
    /\ requests = <<h[i].passedAt, h[j].passedAt>>

\* The step belongs to the handler of the i-th line.
StepOf(i) == h'[i] # h[i]

\* Every step of the handler of a mutating request leaves the cache as it
\* is; a step that serves a request from the cache leaves the cache as it
\* is; and a step that changes the cache belongs to a request that is not
\* mutating and changes the entry under that request's key only.
C26_Step ==
  /\ \A i \in Handlers :
       /\ StepOf(i) /\ h'[i].line.json /\ Mutating(h'[i].request)
            => entries' = entries
       /\ StepOf(i) /\ h'[i].served = "cache"
            => entries' = entries
  /\ entries' # entries =>
       \E i \in Handlers :
         /\ StepOf(i) /\ h'[i].line.json /\ ~Mutating(h'[i].request)
         /\ \A k \in (DOMAIN entries \cup DOMAIN entries') \ {KeyOf(h'[i].request)} :
              /\ k \in DOMAIN entries /\ k \in DOMAIN entries'
              /\ entries'[k] = entries[k]

\* C26: handling a mutating request adds, removes and invalidates no cache
\* entry, and a cache hit changes neither the stored entry nor its expiry;
\* so a read cached before a successful write of the same path is still
\* served from the cache while its entry has not expired.
C26_CacheFrame == [][C26_Step]_vars

\* A read was stored, a write of the same path succeeded and was answered,
\* and a later read was answered from the cache after the write's answer,
\* the entry keeping the expiry of its store.
C26_Witness ==
  \E i, j, k \in Handlers :
    /\ i < j /\ j < k
    /\ h[i].served = "proxy" /\ ~Mutating(h[i].request)
    /\ Mutating(h[j].request) /\ h[j].served = "proxy" /\ h[j].response.hasResult
    /\ h[k].served = "cache" /\ h[k].pc = "done"
    /\ KeyOf(h[k].request) = KeyOf(h[i].request)
    /\ \E p, q \in 1..Len(out) : p < q /\ out[p].line = j /\ out[q].line = k
    /\ h[k].readAt > h[i].readAt
    /\ entries[KeyOf(h[k].request)].value = [h[k].response EXCEPT !.id = h[i].response.id]
    /\ entries[KeyOf(h[k].request)].expiry < h[k].readAt + CONFIG.cacheTTLMs

\* Another request with the key of the i-th is waiting for the proxy.
SameKeyInFlight(i) ==
  \E j \in Handlers \ {i} :
    /\ InFlight(j) /\ h[j].line.json
    /\ KeyOf(h[j].request) = KeyOf(h'[i].request)

\* A cacheable request that passes the rate-limit step while another with
\* its key is in flight and nothing is stored under the key makes an HTTP
\* call of its own; and the step that receives a successful body for a
\* cacheable request resolves that request with that body and stores it
\* under the key, whatever was stored there, to expire one TTL later.
C27_Step ==
  \A i \in Handlers :
    /\ (/\ ReadAndPassed(i)
        /\ ~Mutating(h'[i].request)
        /\ SameKeyInFlight(i)
        /\ KeyOf(h'[i].request) \notin DOMAIN entries)
         => /\ h'[i].pc = "fetch"
            /\ sent' = sent \cup {[line |-> i, body |-> h'[i].request]}
            /\ sent' # sent
            /\ UNCHANGED <<entries, out>>
    /\ (/\ h[i].pc = "json" /\ h'[i].served = "proxy"
        /\ ~Mutating(h[i].request)
        /\ ~h'[i].response.errorTruthy)
         => /\ \E kind \in env.bodies : h'[i].response = Body(kind, h[i].request)
            /\ entries' = (KeyOf(h[i].request) :>
                             [value |-> h'[i].response,
                              expiry |-> now + CONFIG.cacheTTLMs]) @@ entries

\* C27: requests with one key that are in flight together each make their
\* own HTTP call and each is answered with the body the proxy sent for it;
\* every successful body is stored over whatever the key held, so the
\* entry left is that of the response that arrived last, with its expiry
\* counted from that store.
C27_LastStoreWins ==
  /\ [](\A i \in Handlers :
          h[i].served = "proxy" =>
            /\ [line |-> i, body |-> h[i].request] \in sent
            /\ h[i].pc = "done" =>
                 \E p \in 1..Len(out) : out[p] = Written(i, h[i].response))
  /\ [][C27_Step]_vars

\* Two reads with one key both went to the proxy; the second was answered
\* first, with another result than the first, and the cache holds the
\* response of the first, which arrived last.
C27_Witness ==
  \E i, j \in Handlers :
    /\ i < j
    /\ h[i].served = "proxy" /\ h[i].pc = "done" /\ h[i].attempts = 1
    /\ h[j].served = "proxy" /\ h[j].pc = "done" /\ h[j].attempts = 1
    /\ h[i].request.id # h[j].request.id
    /\ KeyOf(h[i].request) = KeyOf(h[j].request)
    /\ h[i].response.result # h[j].response.result
    /\ {[line |-> i, body |-> h[i].request], [line |-> j, body |-> h[j].request]}
         \subseteq sent
    /\ \E p, q \in 1..Len(out) :
         /\ p < q
         /\ out[p] = Written(j, h[j].response)
         /\ out[q] = Written(i, h[i].response)
    /\ entries[KeyOf(h[i].request)].value = h[i].response

====
